---- MODULE Spec2Model ----
(***************************************************************************)
(* Model of the hierarchical checklist system: cli/checklist_utils.py and  *)
(* cli/rag_runner.py.  The state is the content of the files the tool      *)
(* keeps under ROOT_DIR; every function of the tool is a transformer of    *)
(* that state, and every REPL verb is one action.                          *)
(***************************************************************************)
EXTENDS Integers, Sequences, FiniteSets, TLC

\* Number of entries of a tree document (the shipped templates list six).
NumSteps == 2
\* Longest hash log explored.
MaxLedger == 2
\* Longest scratchpad log explored.
MaxLog == 1
\* Most validation commands in one expected-output file.
MaxCmds == 1
\* generate_new_project_bootstrap_md writes the documents of steps 01 and 02.
BespokeSteps == 2

(***************************************************************************)
(* Paths.  A step document is named by the tree that declares it and its   *)
(* number: the two templates use different descriptions for equal numbers, *)
(* so STEP_01 of the new-project tree and STEP_01 of the fix tree are      *)
(* different files with the same step number.  A child step is             *)
(* STEP_<n><letter>__*.md.                                                 *)
(***************************************************************************)
StepName(kind, num) == [kind |-> kind, num |-> num]
NoStep == StepName("NONE", 0)
BootstrapPath == StepName("NEW_PROJECT_INIT", 0)
TreeKinds == {"NEW", "FIX"}
TreeStepNames == {StepName(k, i) : k \in TreeKinds, i \in 1..NumSteps}
ChildStepNames == {StepName("CHILD", 1)}
\* The step numbers an EXPECTED_OUTPUT_<num>.json is written for.
ExpectedNums == {1}
StepNames == TreeStepNames \cup ChildStepNames

VARIABLES bootstrap, steps, lock, current_step, hash_log, thoughts,
          inconsistencies, expected, last, pc

vars == <<bootstrap, steps, lock, current_step, hash_log, thoughts,
          inconsistencies, expected, last, pc>>

\* The sessions of the tool that can run side by side on one codebase; pc is
\* where each is in try_push, or how its last try_push ended.
Sessions == {"a", "b"}

\* The files as one value, so that the tool's functions compose.
FS ==
    [bootstrap |-> bootstrap, steps |-> steps, lock |-> lock,
     current |-> current_step, hash_log |-> hash_log, thoughts |-> thoughts,
     inconsistencies |-> inconsistencies, expected |-> expected]

\* ---------------------------------------------------------------- documents
NoDoc == [exists |-> FALSE, status |-> "Open", unchecked |-> FALSE, question |-> FALSE, refs |-> {}]
\* create_step_file: each of the three templates has the open status marker,
\* unchecked items, no question glyph and no child link.
StepTemplate == [exists |-> TRUE, status |-> "Open", unchecked |-> TRUE, question |-> FALSE, refs |-> {}]
NoBootstrap == [exists |-> FALSE, checked |-> [i \in 1..NumSteps |-> FALSE], other |-> FALSE]
\* A fresh tree document: every tree entry open, and the unchecked boxes of
\* the Failsafe Constraints section (other).
BootstrapTemplate == [exists |-> TRUE, checked |-> [i \in 1..NumSteps |-> FALSE], other |-> TRUE]
NoLock == [held |-> FALSE, reason |-> "", about |-> NoStep]
NoExpected == -1
\* What running a validation command yields is its exit code, where the model
\* keeps one more value for a command that exits non-zero with a backslash
\* escape or group reference in its text or output that re.sub does not take
\* in a replacement template: log_inconsistency raises re.error on it.
BadEscape == 2

\* ------------------------------------------------------------- lock manager
\* As assert_not_locked, with the check left out.
lock_never_checked(fs) == TRUE

assert_not_locked(fs) == ~fs.lock.held

\* As assert_current_file_is, without the comparison of the two paths.
assert_current_file_exists(fs, path) == fs.current # NoStep

assert_current_file_is(fs, path) == fs.current # NoStep /\ path = fs.current
\* As set_current_step, with the pointer file left as it was.
set_current_step_kept(fs, step_file) == fs

set_current_step(fs, step_file) == [fs EXCEPT !.current = step_file]
\* As create_lock_file, leaving a lock file that is already there alone.
create_lock_about_first_wins(fs, reason, about) ==
    IF fs.lock.held THEN fs
    ELSE [fs EXCEPT !.lock = [held |-> TRUE, reason |-> reason, about |-> about]]

create_lock_about(fs, reason, about) ==
    [fs EXCEPT !.lock = [held |-> TRUE, reason |-> reason, about |-> about]]

\* As create_lock_file, with the write lost.
create_lock_file_lost(fs, reason) == fs

create_lock_file(fs, reason) == create_lock_about(fs, reason, NoStep)
remove_lock_file(fs) == [fs EXCEPT !.lock = NoLock]

\* ---------------------------------------------------------- integrity guard
\* SHA-256 of the document: one digest per content.
compute_file_hash(doc) ==
    (IF doc.status = "Complete" THEN 1 ELSE 0) + (IF doc.unchecked THEN 2 ELSE 0)
    + (IF doc.question THEN 4 ELSE 0) + (IF doc.refs # {} THEN 8 ELSE 0)
\* As log_file_hash, with the digest of an empty read in place of the file's.
log_file_hash_unread(fs, file_path) ==
    [fs EXCEPT !.hash_log = Append(@, [path |-> file_path, hash |-> 0])]
\* As log_file_hash, opening the log for writing: the new entry replaces it.
log_file_hash_rewriting(fs, file_path) ==
    [fs EXCEPT !.hash_log =
        <<[path |-> file_path, hash |-> compute_file_hash(fs.steps[file_path])]>>]

log_file_hash(fs, file_path) ==
    [fs EXCEPT !.hash_log =
        Append(@, [path |-> file_path, hash |-> compute_file_hash(fs.steps[file_path])])]

\* As verify_file_hashes, taking the first line of the log for its header.
verify_file_hashes_after_header(fs) ==
    \A i \in 2..Len(fs.hash_log) :
        LET entry == fs.hash_log[i]
        IN  fs.steps[entry.path].exists
                => compute_file_hash(fs.steps[entry.path]) = entry.hash
\* As verify_file_hashes, failing on an entry whose file is gone.
verify_file_hashes_missing_fails(fs) ==
    \A i \in 1..Len(fs.hash_log) :
        LET entry == fs.hash_log[i]
        IN  /\ fs.steps[entry.path].exists
            /\ compute_file_hash(fs.steps[entry.path]) = entry.hash

verify_file_hashes(fs) ==
    \A i \in 1..Len(fs.hash_log) :
        LET entry == fs.hash_log[i]
        IN  fs.steps[entry.path].exists
                => compute_file_hash(fs.steps[entry.path]) = entry.hash

\* ------------------------------------------------------------ step registry
create_step_file(fs, step_name) == [fs EXCEPT !.steps[step_name] = StepTemplate]

\* The bootstrap file get_active_step parses: the new-project one when it exists.
active_bootstrap(fs) ==
    IF fs.bootstrap["NEW"].exists THEN "NEW"
    ELSE IF fs.bootstrap["FIX"].exists THEN "FIX" ELSE "NONE"

\* As first_unchecked, but scanning from the end of the tree.
first_unchecked_from_end(tree) ==
    IF \E i \in 1..NumSteps : ~tree.checked[i]
    THEN CHOOSE i \in 1..NumSteps :
            ~tree.checked[i] /\ \A j \in (i + 1)..NumSteps : tree.checked[j]
    ELSE 0

\* Index of the first unchecked entry of a tree, 0 when there is none.
first_unchecked(tree) ==
    IF \E i \in 1..NumSteps : ~tree.checked[i]
    THEN CHOOSE i \in 1..NumSteps :
            ~tree.checked[i] /\ \A j \in 1..(i - 1) : tree.checked[j]
    ELSE 0

Outcome(fs, ret, step, ran) == [fs |-> fs, ret |-> ret, step |-> step, ran |-> ran]
\* As get_active_step, writing the step document from its template whether
\* or not it exists.
get_active_step_rewriting(fs) ==
    IF ~verify_file_hashes(fs)
    THEN Outcome(create_lock_file(fs, "File tampering detected"), "exit", NoStep, {})
    ELSE IF active_bootstrap(fs) = "NONE"
    THEN Outcome(fs, "none", NoStep, {})
    ELSE LET kind == active_bootstrap(fs)
             i == first_unchecked(fs.bootstrap[kind])
             step == StepName(kind, i)
         IN  IF i = 0
             THEN Outcome(fs, "none", NoStep, {})
             ELSE Outcome(log_file_hash(set_current_step(create_step_file(fs, step), step),
                                        step),
                          "step", step, {})

get_active_step(fs) ==
    IF ~verify_file_hashes(fs)
    THEN Outcome(create_lock_file(fs, "File tampering detected"), "exit", NoStep, {})
    ELSE IF active_bootstrap(fs) = "NONE"
    THEN Outcome(fs, "none", NoStep, {})
    ELSE LET kind == active_bootstrap(fs)
             i == first_unchecked(fs.bootstrap[kind])
             step == StepName(kind, i)
         IN  IF i = 0
             THEN Outcome(fs, "none", NoStep, {})
             ELSE LET made == IF fs.steps[step].exists THEN fs
                              ELSE create_step_file(fs, step)
                  IN  Outcome(log_file_hash(set_current_step(made, step), step),
                              "step", step, {})

\* ------------------------------------------------------------ step verifier
all_checkboxes_checked(fs, step_file) ==
    fs.steps[step_file].exists /\ ~fs.steps[step_file].unchecked

no_pending_questions(fs, step_file) ==
    fs.steps[step_file].exists /\ ~fs.steps[step_file].question

get_child_steps(fs, step_file) ==
    IF fs.steps[step_file].exists THEN fs.steps[step_file].refs ELSE {}

\* As is_step_complete, without the look at the status marker.
is_step_present(fs, step_file) == fs.steps[step_file].exists
\* As is_step_complete, also asking that the step's own items are checked.
is_step_complete_deep(fs, step_file) ==
    /\ fs.steps[step_file].exists /\ fs.steps[step_file].status = "Complete"
    /\ ~fs.steps[step_file].unchecked

is_step_complete(fs, step_file) ==
    fs.steps[step_file].exists /\ fs.steps[step_file].status = "Complete"
\* As first_blocking_child, looking only at the children whose document exists.
first_blocking_child_present(fs, step_file) ==
    LET blocking == {c \in get_child_steps(fs, step_file) :
                        fs.steps[c].exists /\ ~is_step_complete(fs, c)}
    IN  IF blocking = {} THEN NoStep
        ELSE CHOOSE c \in blocking : \A d \in blocking : c.num <= d.num

\* The first referenced child, in document order, that is missing or not
\* complete; NoStep when every referenced child passes.
first_blocking_child(fs, step_file) ==
    LET blocking == {c \in get_child_steps(fs, step_file) : ~is_step_complete(fs, c)}
    IN  IF blocking = {} THEN NoStep
        ELSE CHOOSE c \in blocking : \A d \in blocking : c.num <= d.num
\* Inserted right after the section header: the newest entry comes first.
log_inconsistency(fs, cmd, file_path) ==
    [fs EXCEPT !.inconsistencies = <<[file |-> file_path, cmd |-> cmd]>> \o @]

\* Index of the first command with a non-zero exit among the first n, or 0.
first_failing(n, exits) ==
    IF \E k \in 1..n : exits[k] # 0
    THEN CHOOSE k \in 1..n : exits[k] # 0 /\ \A j \in 1..(k - 1) : exits[j] = 0
    ELSE 0

\* exits[k] is the exit code the k-th validation command returns when run.
\* The re.error log_inconsistency raises is caught by the function's except
\* clause, which returns False.
validate_expected_output(fs, step_file, exits) ==
    LET n == fs.expected[step_file.num]
        k == first_failing(n, exits)
    IN  IF step_file.kind \notin TreeKinds
        THEN [ok |-> FALSE, fs |-> fs, ran |-> {}]
        ELSE IF n = NoExpected
        THEN [ok |-> TRUE, fs |-> fs, ran |-> {}]
        ELSE IF k = 0
        THEN [ok |-> TRUE, fs |-> fs,
              ran |-> IF n > 0 THEN {"validation_command"} ELSE {}]
        ELSE IF exits[k] = BadEscape
        THEN [ok |-> FALSE, fs |-> fs, ran |-> {"validation_command"}]
        ELSE [ok |-> FALSE, fs |-> log_inconsistency(fs, k, step_file),
              ran |-> {"validation_command"}]

\* Only 000_BOOTSTRAP_FIX_INIT.md is updated, whichever tree declares the step.
mark_step_complete(fs, step_file) ==
    IF ~fs.steps[step_file].exists THEN fs
    ELSE LET done == [fs EXCEPT !.steps[step_file].status = "Complete"]
         IN  IF ~fs.bootstrap["FIX"].exists THEN done
             ELSE [done EXCEPT !.bootstrap["FIX"].checked =
                      [i \in 1..NumSteps |->
                          IF StepName("FIX", i) = step_file THEN TRUE ELSE @[i]]]
\* The return code of git diff --exit-code is non-zero.
uncommitted_changes(git) == git = "dirty"

\* As verify_step, with the question gate before the checkbox gate.
verify_step_questions_first(fs, step_file, exits, git) ==
    IF ~assert_current_file_is(fs, step_file)
    THEN Outcome(fs, "exit", NoStep, {})
    ELSE IF ~fs.steps[step_file].exists
    THEN Outcome(fs, "false", NoStep, {})
    ELSE IF ~no_pending_questions(fs, step_file)
    THEN Outcome(create_lock_file(fs, "Pending questions in checklist"), "false", NoStep, {})
    ELSE IF ~all_checkboxes_checked(fs, step_file)
    THEN Outcome(create_lock_file(fs, "Incomplete checklist items"), "false", NoStep, {})
    ELSE IF first_blocking_child(fs, step_file) # NoStep
    THEN LET child == first_blocking_child(fs, step_file)
         IN  Outcome(create_lock_about(fs,
                        IF fs.steps[child].exists THEN "Incomplete child step"
                        ELSE "Missing child step", child),
                     "false", NoStep, {})
    ELSE LET v == validate_expected_output(fs, step_file, exits)
         IN  IF ~v.ok
             THEN Outcome(create_lock_file(v.fs, "Expected output validation failed"),
                          "false", NoStep, v.ran)
             ELSE Outcome(remove_lock_file(mark_step_complete(v.fs, step_file)),
                          "true", NoStep, v.ran \cup {"git_diff"})
\* As verify_step, marking the step complete before the validation gate.
verify_step_marking_early(fs, step_file, exits, git) ==
    IF ~assert_current_file_is(fs, step_file)
    THEN Outcome(fs, "exit", NoStep, {})
    ELSE IF ~fs.steps[step_file].exists
    THEN Outcome(fs, "false", NoStep, {})
    ELSE IF ~all_checkboxes_checked(fs, step_file)
    THEN Outcome(create_lock_file(fs, "Incomplete checklist items"), "false", NoStep, {})
    ELSE IF ~no_pending_questions(fs, step_file)
    THEN Outcome(create_lock_file(fs, "Pending questions in checklist"), "false", NoStep, {})
    ELSE IF first_blocking_child(fs, step_file) # NoStep
    THEN LET child == first_blocking_child(fs, step_file)
         IN  Outcome(create_lock_about(fs,
                        IF fs.steps[child].exists THEN "Incomplete child step"
                        ELSE "Missing child step", child),
                     "false", NoStep, {})
    ELSE LET v == validate_expected_output(mark_step_complete(fs, step_file), step_file, exits)
         IN  IF ~v.ok
             THEN Outcome(create_lock_file(v.fs, "Expected output validation failed"),
                          "false", NoStep, v.ran)
             ELSE Outcome(remove_lock_file(v.fs), "true", NoStep, v.ran \cup {"git_diff"})

\* As verify_step, refusing a working tree with uncommitted changes.
verify_step_clean_tree_only(fs, step_file, exits, git) ==
    IF ~assert_current_file_is(fs, step_file)
    THEN Outcome(fs, "exit", NoStep, {})
    ELSE IF ~fs.steps[step_file].exists
    THEN Outcome(fs, "false", NoStep, {})
    ELSE IF ~all_checkboxes_checked(fs, step_file)
    THEN Outcome(create_lock_file(fs, "Incomplete checklist items"), "false", NoStep, {})
    ELSE IF ~no_pending_questions(fs, step_file)
    THEN Outcome(create_lock_file(fs, "Pending questions in checklist"), "false", NoStep, {})
    ELSE IF first_blocking_child(fs, step_file) # NoStep
    THEN LET child == first_blocking_child(fs, step_file)
         IN  Outcome(create_lock_about(fs,
                        IF fs.steps[child].exists THEN "Incomplete child step"
                        ELSE "Missing child step", child),
                     "false", NoStep, {})
    ELSE LET v == validate_expected_output(fs, step_file, exits)
         IN  IF ~v.ok
             THEN Outcome(create_lock_file(v.fs, "Expected output validation failed"),
                          "false", NoStep, v.ran)
             ELSE IF uncommitted_changes(git)
             THEN Outcome(create_lock_file(v.fs, "Uncommitted changes"),
                          "false", NoStep, v.ran \cup {"git_diff"})
             ELSE Outcome(remove_lock_file(mark_step_complete(v.fs, step_file)),
                          "true", NoStep, v.ran \cup {"git_diff"})

verify_step(fs, step_file, exits, git) ==
    IF ~assert_current_file_is(fs, step_file)
    THEN Outcome(fs, "exit", NoStep, {})
    ELSE IF ~fs.steps[step_file].exists
    THEN Outcome(fs, "false", NoStep, {})
    ELSE IF ~all_checkboxes_checked(fs, step_file)
    THEN Outcome(create_lock_file(fs, "Incomplete checklist items"), "false", NoStep, {})
    ELSE IF ~no_pending_questions(fs, step_file)
    THEN Outcome(create_lock_file(fs, "Pending questions in checklist"), "false", NoStep, {})
    ELSE IF first_blocking_child(fs, step_file) # NoStep
    THEN LET child == first_blocking_child(fs, step_file)
         IN  Outcome(create_lock_about(fs,
                        IF fs.steps[child].exists THEN "Incomplete child step"
                        ELSE "Missing child step", child),
                     "false", NoStep, {})
    ELSE LET v == validate_expected_output(fs, step_file, exits)
         IN  IF ~v.ok
             THEN Outcome(create_lock_file(v.fs, "Expected output validation failed"),
                          "false", NoStep, v.ran)
             ELSE \* git diff --exit-code: uncommitted changes are printed as
                  \* a warning, and the step is marked complete all the same.
                  LET warned == uncommitted_changes(git)
                  IN  Outcome(remove_lock_file(mark_step_complete(v.fs, step_file)),
                              "true", NoStep, v.ran \cup {"git_diff"})

\* rag_runner.py: the "next" verb.
move_to_next_step(fs, step_file) ==
    IF ~assert_current_file_is(fs, step_file)
    THEN Outcome(fs, "exit", NoStep, {})
    ELSE IF ~assert_not_locked(fs)
    THEN Outcome(fs, "exit", NoStep, {})
    ELSE IF ~all_checkboxes_checked(fs, step_file)
    THEN Outcome(create_lock_file(fs, "Incomplete checklist items"), "blocked", NoStep, {})
    ELSE IF ~no_pending_questions(fs, step_file)
    THEN Outcome(create_lock_file(fs, "Pending questions in checklist"), "blocked", NoStep, {})
    ELSE LET g == get_active_step(mark_step_complete(fs, step_file))
         IN  IF g.ret = "exit" THEN Outcome(g.fs, "exit", NoStep, {})
             ELSE IF g.ret = "step"
             THEN Outcome(log_file_hash(set_current_step(g.fs, g.step), g.step),
                          "moved", g.step, {})
             ELSE Outcome(remove_lock_file(g.fs), "all_complete", NoStep, {})

\* ----------------------------------------------------------------- logging
\* The texts a question is logged with: plain text, and text with a
\* backslash escape or group reference that re.sub rejects in its
\* replacement template ("C:\path", "\d+", "\1").
Thoughts == {"text", "escape"}

\* Inserted right after the "## Pending Questions" header by re.sub, with the
\* entry as the replacement template: re.error is raised on a template that
\* re rejects, before the file is written.
log_thought(fs, thought) ==
    IF thought = "escape" THEN Outcome(fs, "raises", NoStep, {})
    ELSE Outcome([fs EXCEPT !.thoughts = @ + 1], "logged", NoStep, {})

halt_with_reason(fs) ==
    [fs EXCEPT !.lock = [held |-> TRUE, reason |-> "Halted", about |-> NoStep]]
\* As exec_command, without the look for the lock file.
exec_command_unguarded(fs, result) ==
    IF result = "raises"
    THEN Outcome(create_lock_file(fs, "Error executing command"),
                 "false", NoStep, {"command_log", "shell"})
    ELSE IF result = "nonzero"
    THEN Outcome(create_lock_file(fs, "Command failed"),
                 "false", NoStep, {"command_log", "shell"})
    ELSE Outcome(fs, "true", NoStep, {"command_log", "shell"})

\* rag_runner.py: the "exec" verb.  result is "zero", "nonzero" or "raises".
\* The command log is written and never read by the tool: an append to it is
\* the "command_log" of ran.
exec_command(fs, result) ==
    IF ~assert_not_locked(fs) THEN Outcome(fs, "exit", NoStep, {})
    ELSE IF result = "raises"
    THEN Outcome(create_lock_file(fs, "Error executing command"),
                 "false", NoStep, {"command_log", "shell"})
    ELSE IF result = "nonzero"
    THEN Outcome(create_lock_file(fs, "Command failed"),
                 "false", NoStep, {"command_log", "shell"})
    ELSE Outcome(fs, "true", NoStep, {"command_log", "shell"})

\* ---------------------------------------------------------------- push gate
\* Any "- [ ]" of 000_BOOTSTRAP_FIX_INIT.md, in the tree section or outside it.
checklist_incomplete(fs) ==
    \/ ~fs.bootstrap["FIX"].exists
    \/ fs.bootstrap["FIX"].other
    \/ \E i \in 1..NumSteps : ~fs.bootstrap["FIX"].checked[i]

\* validate_output.py runs every command of a file and logs each failure; the
\* re.error of log_inconsistency ends the work on that file.
RECURSIVE run_commands(_, _, _, _, _)
run_commands(fs, step_file, k, n, exits) ==
    IF k > n \/ exits[k] = BadEscape THEN fs
    ELSE run_commands(IF exits[k] # 0 THEN log_inconsistency(fs, k, step_file) ELSE fs,
                      step_file, k + 1, n, exits)

\* validate_output.py, one EXPECTED_OUTPUT_<num>.json: the step document is
\* the first STEP_<num>__*.md the directory listing yields (glob_first).
validate_one(fs, num, exits, glob_first) ==
    LET files == {f \in {StepName(k, num) : k \in TreeKinds} : fs.steps[f].exists}
        n == fs.expected[num]
        step_file == IF StepName(glob_first, num) \in files
                     THEN StepName(glob_first, num)
                     ELSE CHOOSE f \in files : TRUE
    IN  IF n = NoExpected THEN [ok |-> TRUE, fs |-> fs]
        ELSE IF files = {} THEN [ok |-> FALSE, fs |-> fs]
        ELSE [ok |-> \A k \in 1..n : exits[k] = 0,
              fs |-> run_commands(fs, step_file, 1, n, exits)]

RECURSIVE validate_expected_outputs(_, _, _, _)
validate_expected_outputs(fs, num, all_exits, glob_first) ==
    IF num > NumSteps THEN [ok |-> TRUE, fs |-> fs]
    ELSE LET one == validate_one(fs, num, all_exits[num], glob_first)
             rest == validate_expected_outputs(one.fs, num + 1, all_exits, glob_first)
         IN  [ok |-> one.ok /\ rest.ok, fs |-> rest.fs]
\* As try_push, without the look at inconsistencies_pending.md.
try_push_ignoring_log(fs, all_exits, glob_first, git, push_exit) ==
    IF fs.lock.held THEN Outcome(fs, "blocked", NoStep, {})
    ELSE IF checklist_incomplete(fs)
    THEN Outcome(create_lock_file(fs, "Checklist incomplete"), "denied", NoStep, {})
    ELSE IF fs.thoughts > 0
    THEN Outcome(create_lock_file(fs, "Pending questions in scratchpad"), "denied", NoStep, {})
    ELSE LET v == validate_expected_outputs(fs, 1, all_exits, glob_first)
         IN  IF ~v.ok
             THEN Outcome(create_lock_file(v.fs, "Output validation failed"),
                          "denied", NoStep, {"validate_output"})
             ELSE IF git = "raises"
             THEN Outcome(create_lock_file(v.fs, "Error pushing changes"),
                          "error", NoStep, {"validate_output"})
             ELSE Outcome(v.fs, "pushed", NoStep,
                          {"validate_output", "git_push"}
                          \cup (IF git = "dirty" THEN {"git_commit"} ELSE {})
                          \cup (IF push_exit # 0 THEN {"git_push_nonzero"} ELSE {}))

\* As try_push, with no except clause around the git calls.
try_push_uncaught(fs, all_exits, glob_first, git, push_exit) ==
    IF fs.lock.held THEN Outcome(fs, "blocked", NoStep, {})
    ELSE IF checklist_incomplete(fs)
    THEN Outcome(create_lock_file(fs, "Checklist incomplete"), "denied", NoStep, {})
    ELSE IF fs.thoughts > 0
    THEN Outcome(create_lock_file(fs, "Pending questions in scratchpad"), "denied", NoStep, {})
    ELSE IF Len(fs.inconsistencies) > 0
    THEN Outcome(create_lock_file(fs, "Unresolved inconsistencies"), "denied", NoStep, {})
    ELSE LET v == validate_expected_outputs(fs, 1, all_exits, glob_first)
         IN  IF ~v.ok
             THEN Outcome(create_lock_file(v.fs, "Output validation failed"),
                          "denied", NoStep, {"validate_output"})
             ELSE IF git = "raises"
             THEN Outcome(v.fs, "error", NoStep, {"validate_output"})
             ELSE Outcome(v.fs, "pushed", NoStep,
                          {"validate_output", "git_push"}
                          \cup (IF git = "dirty" THEN {"git_commit"} ELSE {})
                          \cup (IF push_exit # 0 THEN {"git_push_nonzero"} ELSE {}))

\* git is "raises" (the git call throws), "clean" or "dirty"; push_exit is the
\* exit code of git push.
\* As try_push_unlocked, looking for the lock file once more before it goes on.
try_push_unlocked_rechecking(fs, all_exits, glob_first, git, push_exit) ==
    IF fs.lock.held THEN Outcome(fs, "blocked", NoStep, {})
    ELSE IF checklist_incomplete(fs)
    THEN Outcome(create_lock_file(fs, "Checklist incomplete"), "denied", NoStep, {})
    ELSE IF fs.thoughts > 0
    THEN Outcome(create_lock_file(fs, "Pending questions in scratchpad"), "denied", NoStep, {})
    ELSE IF Len(fs.inconsistencies) > 0
    THEN Outcome(create_lock_file(fs, "Unresolved inconsistencies"), "denied", NoStep, {})
    ELSE LET v == validate_expected_outputs(fs, 1, all_exits, glob_first)
         IN  IF ~v.ok
             THEN Outcome(create_lock_file(v.fs, "Output validation failed"),
                          "denied", NoStep, {"validate_output"})
             ELSE IF git = "raises"
             THEN Outcome(create_lock_file(v.fs, "Error pushing changes"),
                          "error", NoStep, {"validate_output"})
             ELSE Outcome(v.fs, "pushed", NoStep,
                          {"validate_output", "git_push"}
                          \cup (IF git = "dirty" THEN {"git_commit"} ELSE {})
                          \cup (IF push_exit # 0 THEN {"git_push_nonzero"} ELSE {}))

\* try_push from its second check on: the lock file is not read again.
try_push_unlocked(fs, all_exits, glob_first, git, push_exit) ==
    IF checklist_incomplete(fs)
    THEN Outcome(create_lock_file(fs, "Checklist incomplete"), "denied", NoStep, {})
    ELSE IF fs.thoughts > 0
    THEN Outcome(create_lock_file(fs, "Pending questions in scratchpad"), "denied", NoStep, {})
    ELSE IF Len(fs.inconsistencies) > 0
    THEN Outcome(create_lock_file(fs, "Unresolved inconsistencies"), "denied", NoStep, {})
    ELSE LET v == validate_expected_outputs(fs, 1, all_exits, glob_first)
         IN  IF ~v.ok
             THEN Outcome(create_lock_file(v.fs, "Output validation failed"),
                          "denied", NoStep, {"validate_output"})
             ELSE IF git = "raises"
             THEN Outcome(create_lock_file(v.fs, "Error pushing changes"),
                          "error", NoStep, {"validate_output"})
             ELSE Outcome(v.fs, "pushed", NoStep,
                          {"validate_output", "git_push"}
                          \cup (IF git = "dirty" THEN {"git_commit"} ELSE {})
                          \cup (IF push_exit # 0 THEN {"git_push_nonzero"} ELSE {}))

try_push(fs, all_exits, glob_first, git, push_exit) ==
    IF fs.lock.held THEN Outcome(fs, "blocked", NoStep, {})
    ELSE try_push_unlocked(fs, all_exits, glob_first, git, push_exit)

\* --------------------------------------------------------- initialization
\* rag_runner.py initialize_system, with is_new the answer of is_new_codebase.
initialize_system(fs, is_new) ==
    IF is_new
    THEN LET fresh == [fs EXCEPT
                 !.bootstrap["NEW"] = BootstrapTemplate,
                 !.steps = [s \in StepNames |->
                              IF s.kind = "NEW" /\ s.num <= BespokeSteps
                              THEN StepTemplate ELSE @[s]],
                 !.lock = [held |-> TRUE, reason |-> "project not initialized",
                           about |-> NoStep]]
             made == IF fs.bootstrap["NEW"].exists THEN fs ELSE fresh
         IN  set_current_step(made, BootstrapPath)
    ELSE IF fs.bootstrap["FIX"].exists THEN fs
    ELSE [fs EXCEPT !.bootstrap["FIX"] = BootstrapTemplate]

EmptyFS ==
    [bootstrap |-> [k \in TreeKinds |-> NoBootstrap],
     steps |-> [s \in StepNames |-> NoDoc],
     lock |-> NoLock, current |-> NoStep, hash_log |-> <<>>, thoughts |-> 0,
     inconsistencies |-> <<>>, expected |-> [n \in 1..NumSteps |-> NoExpected]]

\* ------------------------------------------------------------------ actions
\* What the most recent call was and what it returned: op is the verb, arg
\* the path it was given (NoStep when the path was refused by
\* assert_current_file_is), ret the outcome, step the step get_active_step
\* yielded, ran the external commands the call invoked.
Idle == [op |-> "none", arg |-> NoStep, ret |-> "", step |-> NoStep, ran |-> {}]

Called(op, arg, o) == [op |-> op, arg |-> arg, ret |-> o.ret, step |-> o.step, ran |-> o.ran]

Bounded(fs) ==
    /\ Len(fs.hash_log) <= MaxLedger
    /\ Len(fs.inconsistencies) <= MaxLog
    /\ fs.thoughts <= MaxLog

CommitFiles(fs) ==
    /\ Bounded(fs)
    /\ bootstrap' = fs.bootstrap
    /\ steps' = fs.steps
    /\ lock' = fs.lock
    /\ current_step' = fs.current
    /\ hash_log' = fs.hash_log
    /\ thoughts' = fs.thoughts
    /\ inconsistencies' = fs.inconsistencies
    /\ expected' = fs.expected

\* A call that runs from its first line to its last with no other session
\* in between.
Commit(fs) == CommitFiles(fs) /\ pc' = pc

\* The exit codes of the n commands of an expected-output file (0 beyond n).
Exits(n) ==
    {e \in [1..MaxCmds -> {0, 1, BadEscape}] : \A k \in 1..MaxCmds : k > n => e[k] = 0}

\* What git diff --exit-code finds at the end of verify_step: a working tree
\* without uncommitted changes (code 0) or with some (non-zero).
GitTrees == {"clean", "dirty"}

\* The exit codes of the commands verify_step can reach for step_file.
VerifyExits(fs, step_file) ==
    IF assert_current_file_is(fs, step_file) /\ step_file.kind \in TreeKinds
    THEN Exits(fs.expected[step_file.num]) ELSE Exits(0)

\* The working trees verify_step can tell apart for step_file: it runs git
\* diff only once the checkbox, question and child gates have passed.
VerifyTrees(fs, step_file) ==
    IF /\ assert_current_file_is(fs, step_file) /\ fs.steps[step_file].exists
       /\ all_checkboxes_checked(fs, step_file) /\ no_pending_questions(fs, step_file)
       /\ first_blocking_child(fs, step_file) = NoStep
    THEN GitTrees ELSE {"clean"}

\* What try_push reads from outside, when it gets so far as to read it: the
\* exit codes of the commands of every expected-output file, the order of the
\* directory listing, the state of the git working tree, git push's exit code.
PushInputs(fs) ==
    IF fs.lock.held \/ checklist_incomplete(fs) \/ fs.thoughts > 0
       \/ Len(fs.inconsistencies) > 0
    THEN {[all_exits |-> [n \in 1..NumSteps |-> [k \in 1..MaxCmds |-> 0]],
           glob_first |-> "NEW", git |-> "clean", push_exit |-> 0]}
    ELSE {[all_exits |-> [n \in 1..NumSteps |->
                            IF n \in ExpectedNums THEN e ELSE [k \in 1..MaxCmds |-> 0]],
           glob_first |-> g, git |-> git, push_exit |-> x] :
            e \in UNION {Exits(fs.expected[n]) : n \in ExpectedNums},
            g \in TreeKinds, git \in {"raises", "clean", "dirty"}, x \in {0, 1}}

Init ==
    \E is_new \in BOOLEAN :
        LET fs == initialize_system(EmptyFS, is_new)
        IN  /\ bootstrap = fs.bootstrap
            /\ steps = fs.steps
            /\ lock = fs.lock
            /\ current_step = fs.current
            /\ hash_log = fs.hash_log
            /\ thoughts = fs.thoughts
            /\ inconsistencies = fs.inconsistencies
            /\ expected = fs.expected
            /\ last = Idle
            /\ pc = [p \in Sessions |-> "idle"]

InitializeSystem ==
    \E is_new \in BOOLEAN :
        /\ Commit(initialize_system(FS, is_new))
        /\ last' = [Idle EXCEPT !.op = "init"]

\* A later start of the tool on the codebase it was set up for:
\* is_new_codebase answers as it did then.
Reinitialize ==
    \E is_new \in BOOLEAN :
        /\ is_new <=> bootstrap["NEW"].exists
        /\ Commit(initialize_system(FS, is_new))
        /\ last' = [Idle EXCEPT !.op = "init"]

GetActiveStep ==
    LET o == get_active_step(FS)
    IN  Commit(o.fs) /\ last' = Called("get_active_step", NoStep, o)

VerifyStep ==
    \E step_file \in StepNames :
        \E exits \in VerifyExits(FS, step_file), git \in VerifyTrees(FS, step_file) :
            LET o == verify_step(FS, step_file, exits, git)
            IN  /\ Commit(o.fs)
                /\ last' = Called("verify", IF o.ret = "exit" THEN NoStep ELSE step_file, o)

MoveToNextStep ==
    \E step_file \in StepNames :
        LET o == move_to_next_step(FS, step_file)
        IN  /\ Commit(o.fs)
            /\ last' = Called("next",
                   IF assert_current_file_is(FS, step_file) THEN step_file ELSE NoStep, o)

LogThought ==
    \E thought \in Thoughts :
        LET o == log_thought(FS, thought)
        IN  Commit(o.fs) /\ last' = Called("log", NoStep, o)

HaltWithReason ==
    /\ Commit(halt_with_reason(FS))
    /\ last' = [Idle EXCEPT !.op = "halt"]

ExecCommand ==
    \E result \in {"zero", "nonzero", "raises"} :
        LET o == exec_command(FS, result)
        IN  Commit(o.fs) /\ last' = Called("exec", NoStep, o)

TryPush ==
    \E in \in PushInputs(FS) :
        LET o == try_push(FS, in.all_exits, in.glob_first, in.git, in.push_exit)
        IN  Commit(o.fs) /\ last' = Called("push", NoStep, o)

\* ------------------------------------------------- the actor and the files
\* The actor works on the open document the pointer names.
Editable(s) == s = current_step /\ steps[s].exists /\ steps[s].status = "Open"

Manual(fs) == Commit(fs) /\ last' = Idle

ToggleItems ==
    \E s \in TreeStepNames :
        Editable(s) /\ Manual([FS EXCEPT !.steps[s].unchecked = ~@])

ToggleQuestion ==
    \E s \in TreeStepNames :
        Editable(s) /\ Manual([FS EXCEPT !.steps[s].question = ~@])

ToggleChildLink ==
    \E s \in TreeStepNames, c \in ChildStepNames :
        /\ Editable(s)
        /\ Manual([FS EXCEPT !.steps[s].refs =
                      IF c \in @ THEN @ \ {c} ELSE @ \cup {c}])

CreateChild ==
    \E c \in ChildStepNames :
        ~steps[c].exists /\ Manual(create_step_file(FS, c))

CompleteChild ==
    \E c \in ChildStepNames :
        /\ steps[c].exists /\ steps[c].status = "Open"
        /\ Manual([FS EXCEPT !.steps[c].status = "Complete"])

Unlock == lock.held /\ Manual(remove_lock_file(FS))

ClearScratchpad ==
    /\ thoughts > 0 \/ inconsistencies # <<>>
    /\ Manual([FS EXCEPT !.thoughts = 0, !.inconsistencies = <<>>])

ResetHashLog == hash_log # <<>> /\ Manual([FS EXCEPT !.hash_log = <<>>])

CheckFailsafe ==
    /\ bootstrap["FIX"].exists /\ bootstrap["FIX"].other
    /\ Manual([FS EXCEPT !.bootstrap["FIX"].other = FALSE])

WriteExpected ==
    \E num \in ExpectedNums, n \in {NoExpected} \cup 0..MaxCmds :
        expected[num] # n /\ Manual([FS EXCEPT !.expected[num] = n])

\* The verbs of the tool but its start.
Verbs ==
    \/ GetActiveStep
    \/ VerifyStep
    \/ MoveToNextStep
    \/ LogThought
    \/ HaltWithReason
    \/ ExecCommand
    \/ TryPush

\* The tool across codebases: the actor checks items of the active step and
\* clears, by hand, what only a hand can clear.
Next ==
    \/ InitializeSystem
    \/ Verbs
    \/ ToggleItems
    \/ Unlock
    \/ ClearScratchpad
    \/ ResetHashLog
    \/ CheckFailsafe

Spec == Init /\ [][Next]_vars
\* log_file_hash called on an existing document (compute_file_hash raises on
\* a missing one, before anything is written).
RecordHash ==
    \E file_path \in StepNames :
        /\ steps[file_path].exists
        /\ Commit(log_file_hash(FS, file_path))
        /\ last' = [Idle EXCEPT !.op = "record", !.arg = file_path]

\* The actor deletes a step document.
DeleteStep ==
    \E s \in StepNames :
        steps[s].exists /\ Manual([FS EXCEPT !.steps[s] = NoDoc])

\* The tool and its hash log: nobody but the tool touches the log, and the
\* actor checks items of the active step and deletes documents.
NextLedger ==
    \/ GetActiveStep
    \/ VerifyStep
    \/ MoveToNextStep
    \/ RecordHash
    \/ ToggleItems
    \/ Unlock
    \/ DeleteStep

SpecLedger == Init /\ [][NextLedger]_vars

\* The tool on a fix tree: the actor writes every part of the active step
\* (items, question glyphs, child links), the child documents and the
\* expected-output file.
InitFix == Init /\ bootstrap["FIX"].exists

NextGates ==
    \/ Reinitialize
    \/ Verbs
    \/ ToggleItems
    \/ ToggleQuestion
    \/ ToggleChildLink
    \/ CreateChild
    \/ CompleteChild
    \/ WriteExpected

SpecGates == InitFix /\ [][NextGates]_vars
\* Every operation of the tool, log_file_hash on its own among them; the
\* actor checks items of the active step and removes the lock.
NextAudit ==
    \/ InitializeSystem
    \/ Verbs
    \/ RecordHash
    \/ ToggleItems
    \/ Unlock

SpecAudit == Init /\ [][NextAudit]_vars
\* A session enters try_push and looks for the lock file: with a lock it
\* prints the reason and returns; without one it goes on to the next check.
SessionObserves ==
    \E p \in Sessions :
        /\ pc[p] # "unlocked"
        /\ CommitFiles(FS)
        /\ IF lock.held
           THEN /\ pc' = [pc EXCEPT ![p] = "blocked"]
                /\ last' = Called("push", NoStep, Outcome(FS, "blocked", NoStep, {}))
           ELSE /\ pc' = [pc EXCEPT ![p] = "unlocked"]
                /\ last' = Idle

\* The session goes through the rest of try_push, on the files as they are
\* by now.
SessionProceeds ==
    \E p \in Sessions :
        /\ pc[p] = "unlocked"
        /\ \E in \in PushInputs([FS EXCEPT !.lock = NoLock]) :
              LET o == try_push_unlocked(FS, in.all_exits, in.glob_first, in.git,
                                         in.push_exit)
              IN  /\ CommitFiles(o.fs)
                  /\ pc' = [pc EXCEPT ![p] = o.ret]
                  /\ last' = Called("push", NoStep, o)

\* Two sessions on a fix tree: the calls of try_push interleave at the look
\* for the lock file, every other call runs undisturbed.
NextSessions ==
    \/ GetActiveStep
    \/ VerifyStep
    \/ MoveToNextStep
    \/ HaltWithReason
    \/ ToggleItems
    \/ CheckFailsafe
    \/ ResetHashLog
    \/ SessionObserves
    \/ SessionProceeds

SpecSessions == InitFix /\ [][NextSessions]_vars

\* The tool on a fix tree up to publication: the actor checks items, writes
\* the expected-output file and clears by hand what only a hand can clear.
NextPublish ==
    \/ GetActiveStep
    \/ VerifyStep
    \/ MoveToNextStep
    \/ TryPush
    \/ ToggleItems
    \/ WriteExpected
    \/ CheckFailsafe
    \/ ClearScratchpad
    \/ ResetHashLog
    \/ Unlock

SpecPublish == InitFix /\ [][NextPublish]_vars

\* ------------------------------------------------------------------ claims
\* The tree document get_active_step parses, for a state with a tree.
GoverningTree == IF bootstrap["NEW"].exists THEN bootstrap["NEW"] ELSE bootstrap["FIX"]

HasTree == bootstrap["NEW"].exists \/ bootstrap["FIX"].exists

\* C1: with a ledger that verifies, get_active_step yields the step of the
\* lowest open entry of the tree, and none when every entry is checked.
C1_SingleActiveStep ==
    (HasTree /\ verify_file_hashes(FS)) =>
        LET o == get_active_step(FS)
        IN  /\ (\A i \in 1..NumSteps : GoverningTree.checked[i]) => o.ret = "none"
            /\ (\E i \in 1..NumSteps : ~GoverningTree.checked[i]) => o.ret = "step"
            /\ o.ret = "step" =>
                  /\ o.step.kind = (IF bootstrap["NEW"].exists THEN "NEW" ELSE "FIX")
                  /\ ~GoverningTree.checked[o.step.num]
                  /\ \A j \in 1..(o.step.num - 1) : GoverningTree.checked[j]

\* C1 witness: the first entry is checked and get_active_step yielded step 2.
C1_Witness ==
    /\ last.op = "get_active_step" /\ last.ret = "step" /\ last.step.num = 2
    /\ GoverningTree.checked[1] /\ current_step = last.step

\* C2: for the pointer's target, verify_step succeeds exactly when every item
\* is checked, no question glyph is present, every referenced child exists
\* and is complete, and no expected-output file exists or each of its
\* commands exits 0.
C2_GateIff ==
    \A s \in TreeStepNames :
        (s = current_step /\ steps[s].exists) =>
            \A exits \in Exits(MaxCmds), git \in GitTrees :
                (verify_step(FS, s, exits, git).ret = "true") <=>
                    /\ ~steps[s].unchecked
                    /\ ~steps[s].question
                    /\ \A c \in steps[s].refs :
                          steps[c].exists /\ steps[c].status = "Complete"
                    /\ \/ expected[s.num] = NoExpected
                       \/ \A k \in 1..expected[s.num] : exits[k] = 0

\* C2 witness: verify_step succeeded on a step with a child link and an
\* expected-output file with a command.
C2_Witness ==
    /\ last.op = "verify" /\ last.ret = "true"
    /\ steps[last.arg].refs # {} /\ expected[last.arg.num] > 0
    /\ "validation_command" \in last.ran

\* C3: try_push commits or pushes only when the governing tree is fully
\* checked, both scratchpad logs are empty and no lock exists.
C3_PublishOnlyWhenClear ==
    (last.op = "push" /\ last.ran \cap {"git_commit", "git_push"} # {}) =>
        /\ HasTree /\ \A i \in 1..NumSteps : GoverningTree.checked[i]
        /\ thoughts = 0
        /\ inconsistencies = <<>>
        /\ ~lock.held

\* A call that ended at a failing gate of verify_step, move_to_next_step or
\* try_push.
GateFailure(l) ==
    \/ l.op = "verify" /\ l.ret = "false" /\ l.arg \in StepNames /\ steps[l.arg].exists
    \/ l.op = "next" /\ l.ret = "blocked"
    \/ l.op = "push" /\ l.ret \in {"denied", "error"}

\* C4: after a gate failure the lock exists, and a lock is removed only by an
\* explicit unlock or by a verify_step that succeeds.
C4_LockChokePoint ==
    [][/\ GateFailure(last') => lock'.held
       /\ (lock.held /\ ~lock'.held) =>
             Unlock \/ (last'.op = "verify" /\ last'.ret = "true")]_vars

\* C4 witness: a lock left by a failed verify_step is still there after a
\* later call of another verb.
C4_Witness ==
    /\ lock.held /\ lock.reason = "Incomplete checklist items"
    /\ last.op \in {"get_active_step", "log", "exec", "push"}

\* C5: after verify_step succeeds the step is Complete, its entry in the tree
\* get_active_step parsed is checked, and no lock exists.
C5_VerifyCompletes ==
    (last.op = "verify" /\ last.ret = "true") =>
        /\ steps[last.arg].status = "Complete"
        /\ bootstrap[last.arg.kind].checked[last.arg.num]
        /\ ~lock.held

\* Some existing document differs from a hash the log holds for it.
Tampered ==
    \E i \in 1..Len(hash_log) :
        /\ steps[hash_log[i].path].exists
        /\ compute_file_hash(steps[hash_log[i].path]) # hash_log[i].hash

\* C6: when a logged document has changed, verify_file_hashes fails, and
\* get_active_step locks with the tampering reason, yields no step and
\* leaves the pointer, the log and the step documents as they were.
C6_TamperDetected ==
    [][Tampered =>
          /\ ~verify_file_hashes(FS)
          /\ last'.op = "get_active_step" =>
                /\ lock' = [held |-> TRUE, reason |-> "File tampering detected",
                            about |-> NoStep]
                /\ last'.ret = "exit" /\ last'.step = NoStep
                /\ UNCHANGED <<current_step, hash_log, steps>>]_vars

\* C6 witness: get_active_step has just stopped on a changed document.
C6_Witness ==
    /\ Tampered /\ last.op = "get_active_step" /\ last.ret = "exit"
    /\ lock.reason = "File tampering detected"

\* The step documents' status markers and the tree documents are as before,
\* and the call ran no external command.
C7_Refused ==
    /\ \A s \in StepNames : steps'[s].status = steps[s].status
    /\ bootstrap' = bootstrap
    /\ last'.ran = {}

\* C7 as stated: under a lock verify, next, exec and push change no status
\* marker and no tree document and run no external command.
C7_LockRefusesAll ==
    [][(lock.held /\ last'.op \in {"verify", "next", "exec", "push"}) => C7_Refused]_vars

\* C7 amended: under a lock next, exec and push change no status marker and
\* no tree document and run no external command (verify_step does not check
\* the lock).
C7_LockRefusesNextExecPush ==
    [][(lock.held /\ last'.op \in {"next", "exec", "push"}) => C7_Refused]_vars

\* C7 witness: next was refused under a lock on the active step, whose items
\* are checked.
C7_Witness ==
    /\ lock.held /\ last.op = "next" /\ last.ret = "exit"
    /\ last.arg = current_step /\ last.arg \in TreeStepNames
    /\ ~steps[last.arg].unchecked /\ steps[last.arg].status = "Open"

\* C8: a verb turns a status marker from Open to Complete only when the four
\* gates hold for the step: items checked, no question glyph, children
\* complete, and expected output absent or validated by the call.
C8_CompleteOnlyThroughGates ==
    [][\A s \in StepNames :
          (last'.op # "none" /\ steps[s].exists /\ steps[s].status = "Open"
             /\ steps'[s].status = "Complete") =>
                /\ ~steps[s].unchecked
                /\ ~steps[s].question
                /\ \A c \in steps[s].refs :
                      steps[c].exists /\ steps[c].status = "Complete"
                /\ \/ expected[s.num] <= 0
                   \/ "validation_command" \in last'.ran]_vars

\* C9: verify_step and move_to_next_step on a path that is not the pointer's
\* target, or with no pointer set, stop before any gate and change nothing.
C9_FailClosed ==
    \A path \in StepNames :
        (current_step = NoStep \/ path # current_step) =>
            /\ \A exits \in Exits(MaxCmds), git \in GitTrees :
                  verify_step(FS, path, exits, git) = Outcome(FS, "exit", NoStep, {})
            /\ move_to_next_step(FS, path) = Outcome(FS, "exit", NoStep, {})

\* C9 witness: verify_step was refused while the pointer named a step whose
\* items are checked (the path given was another one).
C9_Witness ==
    /\ last.op = "verify" /\ last.ret = "exit" /\ last.arg = NoStep
    /\ current_step \in TreeStepNames /\ ~steps[current_step].unchecked
    /\ ~lock.held

\* C10: after verify_step or move_to_next_step no step has the Complete
\* marker while its tree entry is open.
C10_AtomicCompletion ==
    (last.op \in {"verify", "next"} /\ last.arg \in TreeStepNames) =>
        ~(/\ steps[last.arg].status = "Complete"
          /\ ~bootstrap[last.arg.kind].checked[last.arg.num])

\* The files with child document c written with the Complete status marker.
WithCompleteChild(fs, c) ==
    [fs EXCEPT !.steps[c] = [StepTemplate EXCEPT !.status = "Complete"]]

\* C11: when the active step links a child whose document is missing,
\* verify_step fails and leaves a lock, which names that child when the
\* checkbox and question gates pass; with the child document written as
\* Complete and the other gates passing, verify_step of the parent succeeds.
C11_MissingChildThenComplete ==
    \A s \in TreeStepNames, c \in ChildStepNames :
        (s = current_step /\ steps[s].exists /\ c \in steps[s].refs /\ ~steps[c].exists) =>
            \A exits \in Exits(MaxCmds), git \in GitTrees :
                LET o == verify_step(FS, s, exits, git)
                    after == verify_step(WithCompleteChild(o.fs, c), s, exits, git)
                    others == /\ ~steps[s].unchecked /\ ~steps[s].question
                              /\ \A d \in steps[s].refs \ {c} :
                                    steps[d].exists /\ steps[d].status = "Complete"
                              /\ \/ expected[s.num] = NoExpected
                                 \/ \A k \in 1..expected[s.num] : exits[k] = 0
                IN  /\ o.ret = "false" /\ o.fs.lock.held
                    /\ o.fs.steps = steps /\ o.fs.bootstrap = bootstrap
                    /\ (~steps[s].unchecked /\ ~steps[s].question) =>
                          o.fs.lock = [held |-> TRUE, reason |-> "Missing child step",
                                       about |-> c]
                    /\ others => /\ after.ret = "true"
                                 /\ after.fs.steps[s].status = "Complete"
                                 /\ ~after.fs.lock.held

\* C11 witness: verify_step has just failed on the missing child the active
\* step links, every other gate passing.
C11_Witness ==
    /\ last.op = "verify" /\ last.ret = "false" /\ last.arg = current_step
    /\ lock.reason = "Missing child step" /\ lock.about \in steps[last.arg].refs
    /\ ~steps[lock.about].exists
    /\ ~steps[last.arg].unchecked /\ ~steps[last.arg].question

\* C12: log_file_hash called once or twice on an unchanged document keeps a
\* log that verifies verifying, and verify_file_hashes is False only when
\* some logged document that exists has a digest other than a logged one.
C12_RecordIdempotent ==
    /\ \A p \in StepNames :
          (steps[p].exists /\ verify_file_hashes(FS)) =>
              /\ verify_file_hashes(log_file_hash(FS, p))
              /\ verify_file_hashes(log_file_hash(log_file_hash(FS, p), p))
    /\ ~verify_file_hashes(FS) =>
          \E i \in 1..Len(hash_log) :
              /\ steps[hash_log[i].path].exists
              /\ steps[hash_log[i].path] \notin
                    {d \in [exists : {TRUE}, status : {"Open", "Complete"},
                            unchecked : BOOLEAN, question : BOOLEAN,
                            refs : SUBSET ChildStepNames] :
                        compute_file_hash(d) = hash_log[i].hash}

\* C12 witness: the same document was recorded twice in a row, unchanged, and
\* the log verifies.
C12_Witness ==
    /\ last.op = "record" /\ Len(hash_log) >= 2
    /\ hash_log[Len(hash_log)] = hash_log[Len(hash_log) - 1]
    /\ hash_log[Len(hash_log)].path = last.arg
    /\ verify_file_hashes(FS)

\* Some box of the governing tree document is unchecked, or there is no tree.
GoverningTreeOpen ==
    \/ ~HasTree
    \/ GoverningTree.other
    \/ \E i \in 1..NumSteps : ~GoverningTree.checked[i]

\* C13: try_push tests lock, tree, questions, inconsistencies and validation
\* in that order and stops at the first that fails: after a call that got
\* past the lock test, the lock carries the reason of the first failing
\* condition and nothing later was evaluated.
C13_PublishOrder ==
    (last.op = "push" /\ last.ret # "blocked") =>
        /\ GoverningTreeOpen =>
              /\ last.ret = "denied" /\ lock.held
              /\ lock.reason = "Checklist incomplete" /\ last.ran = {}
        /\ (~GoverningTreeOpen /\ thoughts > 0) =>
              /\ last.ret = "denied" /\ lock.held
              /\ lock.reason = "Pending questions in scratchpad" /\ last.ran = {}
        /\ (~GoverningTreeOpen /\ thoughts = 0 /\ last.ran = {}) =>
              /\ last.ret = "denied" /\ lock.held
              /\ lock.reason = "Unresolved inconsistencies"
              /\ inconsistencies # <<>>
        /\ (last.ret = "denied" /\ last.ran # {}) =>
              /\ lock.held /\ lock.reason = "Output validation failed"
              /\ last.ran = {"validate_output"}

\* C14: no call of the tool takes a Complete status marker back to Open,
\* removes a completed document, or unchecks a checked tree entry.
C14_CompleteIsTerminal ==
    [][last'.op # "none" =>
          /\ \A s \in StepNames :
                (steps[s].exists /\ steps[s].status = "Complete") =>
                    (steps'[s].exists /\ steps'[s].status = "Complete")
          /\ \A k \in TreeKinds, i \in 1..NumSteps :
                (bootstrap[k].exists /\ bootstrap[k].checked[i]) =>
                    (bootstrap'[k].exists /\ bootstrap'[k].checked[i])]_vars

\* C14 witness: step 1 is Complete and checked in its tree, and
\* get_active_step has gone on to step 2.
C14_Witness ==
    \E k \in TreeKinds :
        /\ steps[StepName(k, 1)].status = "Complete" /\ bootstrap[k].checked[1]
        /\ last.op = "get_active_step" /\ last.step = StepName(k, 2)
        /\ steps[StepName(k, 2)].status = "Open"

\* The last entry the log holds for the path of entry i.
LatestEntry(i) ==
    hash_log[CHOOSE j \in i..Len(hash_log) :
                /\ hash_log[j].path = hash_log[i].path
                /\ \A m \in (j + 1)..Len(hash_log) : hash_log[m].path # hash_log[i].path]

\* C15: verify_file_hashes is True exactly when every logged document that
\* exists has the digest most recently logged for it.
C15_LatestHashDecides ==
    verify_file_hashes(FS) <=>
        \A i \in 1..Len(hash_log) :
            steps[hash_log[i].path].exists =>
                compute_file_hash(steps[hash_log[i].path]) = LatestEntry(i).hash

\* C16: while a logged document still differs from its logged digest, no
\* verify, next, get_active_step or push removes the tampering lock.
C16_TamperLockStays ==
    [][(/\ lock.held /\ lock.reason = "File tampering detected"
        /\ Tampered /\ Tampered'
        /\ last'.op \in {"verify", "next", "get_active_step", "push"}) => lock'.held]_vars

\* C17: when verify_step has just succeeded on step i of a tree with a later
\* entry, the get_active_step that follows yields step i + 1.
C17_ProgressAfterVerify ==
    [][(/\ last.op = "verify" /\ last.ret = "true"
        /\ last.arg \in TreeStepNames /\ last.arg.num < NumSteps
        /\ last'.op = "get_active_step") =>
            /\ last'.ret = "step"
            /\ last'.step = StepName(last.arg.kind, last.arg.num + 1)]_vars

\* C18: the tree get_active_step parses is the tree mark_step_complete checks
\* the active step off in, and the tree whose boxes checklist_incomplete
\* looks at.
C18_OneGoverningTree ==
    HasTree =>
        /\ \A s \in TreeStepNames :
              (s = current_step /\ steps[s].exists /\ s.kind = active_bootstrap(FS)) =>
                  mark_step_complete(FS, s).bootstrap[active_bootstrap(FS)].checked[s.num]
        /\ checklist_incomplete(FS) <=> GoverningTreeOpen

\* C19: when get_active_step returns step s, the document of s exists (the
\* Open template if it was missing, untouched otherwise), the pointer names
\* s and the log has one more entry, for s with its digest; when it returns
\* none, pointer and log are as before.
C19_ResolveEffects ==
    LET o == get_active_step(FS)
        s == o.step
        n == Len(hash_log)
    IN  /\ o.ret = "step" =>
              /\ s \in TreeStepNames
              /\ o.fs.steps[s].exists
              /\ o.fs.steps[s] = (IF steps[s].exists THEN steps[s] ELSE StepTemplate)
              /\ \A t \in StepNames \ {s} : o.fs.steps[t] = steps[t]
              /\ o.fs.current = s
              /\ Len(o.fs.hash_log) = n + 1
              /\ \A i \in 1..n : o.fs.hash_log[i] = hash_log[i]
              /\ o.fs.hash_log[n + 1] =
                    [path |-> s, hash |-> compute_file_hash(o.fs.steps[s])]
        /\ o.ret = "none" =>
              /\ o.fs.current = current_step
              /\ o.fs.hash_log = hash_log
              /\ o.fs.steps = steps

\* C19 witness: get_active_step has just written the document of the step it
\* returned, set the pointer to it and logged its digest.
C19_Witness ==
    /\ last.op = "get_active_step" /\ last.ret = "step"
    /\ current_step = last.step /\ steps[last.step] = StepTemplate
    /\ hash_log # <<>> /\ hash_log[Len(hash_log)].path = last.step
    /\ last.step.kind = "FIX"

\* C20: for the pointer's target past the first three gates, verify_step
\* passes the validation gate when no expected-output file exists; when one
\* exists and a command exits non-zero, verify_step returns False, the lock
\* reads "Expected output validation failed" and the inconsistencies log has
\* a new entry for the first failing command and the step.
C20_ValidationGate ==
    \A s \in TreeStepNames :
        (/\ s = current_step /\ steps[s].exists
         /\ ~steps[s].unchecked /\ ~steps[s].question
         /\ \A c \in steps[s].refs : steps[c].exists /\ steps[c].status = "Complete") =>
            \A exits \in Exits(MaxCmds), git \in GitTrees :
                LET o == verify_step(FS, s, exits, git)
                    n == expected[s.num]
                IN  /\ n = NoExpected => (o.ret = "true" /\ o.ran = {"git_diff"})
                    /\ (n # NoExpected /\ \E k \in 1..n : exits[k] # 0) =>
                          /\ o.ret = "false"
                          /\ o.fs.lock = [held |-> TRUE,
                                          reason |-> "Expected output validation failed",
                                          about |-> NoStep]
                          /\ Len(o.fs.inconsistencies) = Len(inconsistencies) + 1
                          /\ o.fs.inconsistencies[1].file = s
                          /\ exits[o.fs.inconsistencies[1].cmd] # 0
                          /\ \A j \in 1..(o.fs.inconsistencies[1].cmd - 1) : exits[j] = 0

\* C21: when no lock exists, every entry of the governing tree is checked,
\* both scratchpad logs are empty and validation passes, try_push runs git
\* push and leaves no lock (the git calls not raising).
C21_PublishWhenClear ==
    [][(/\ last'.op = "push"
        /\ ~lock.held
        /\ HasTree /\ \A i \in 1..NumSteps : GoverningTree.checked[i]
        /\ thoughts = 0 /\ inconsistencies = <<>>
        /\ \A n \in 1..NumSteps : expected[n] = NoExpected
        /\ last'.ret # "error") =>
            ("git_push" \in last'.ran /\ ~lock'.held)]_vars

\* C22: a git push that exits non-zero is a failure of try_push: the lock is
\* held, an inconsistency is logged and the call does not report success.
C22_PushExitIsFailure ==
    (last.op = "push" /\ "git_push_nonzero" \in last.ran) =>
        /\ lock.held
        /\ inconsistencies # <<>>
        /\ last.ret # "pushed"

\* C23: when the git calls of try_push raise, the call ends with the lock
\* "Error pushing changes: <message>" and nothing else changed.
C23_PushExceptionLocks ==
    (/\ ~lock.held /\ ~checklist_incomplete(FS)
     /\ thoughts = 0 /\ inconsistencies = <<>>) =>
        \A in \in PushInputs(FS) :
            LET o == try_push(FS, in.all_exits, in.glob_first, in.git, in.push_exit)
            IN  (in.git = "raises" /\ o.ret # "denied") =>
                    /\ o.ret = "error"
                    /\ o.fs = create_lock_about(FS, "Error pushing changes", NoStep)
                    /\ "git_push" \notin o.ran

\* C23 witness: try_push has just ended in the except clause of its git calls.
C23_Witness ==
    /\ last.op = "push" /\ last.ret = "error"
    /\ lock.held /\ lock.reason = "Error pushing changes"

\* C24: no call of the tool removes an entry of the inconsistencies log, and
\* while the log holds an entry try_push runs no git command and no
\* validation, whatever verify_step did since and with or without a lock.
C24_InconsistencyBlocksPublish ==
    [][/\ last'.op # "none" =>
             /\ Len(inconsistencies') >= Len(inconsistencies)
             /\ \A i \in 1..Len(inconsistencies) :
                   inconsistencies'[Len(inconsistencies') - Len(inconsistencies) + i]
                       = inconsistencies[i]
       /\ (last'.op = "push" /\ inconsistencies # <<>>) =>
             /\ last'.ret \in {"blocked", "denied"}
             /\ last'.ran = {}
             /\ lock'.held]_vars

\* C24 witness: every step was verified after a validation command had
\* failed, no other condition stands in the way, and try_push was denied for
\* the entry that failure left.
C24_Witness ==
    /\ last.op = "push" /\ last.ret = "denied"
    /\ lock.reason = "Unresolved inconsistencies"
    /\ inconsistencies # <<>> /\ inconsistencies[1].file = StepName("FIX", 1)
    /\ \A i \in 1..NumSteps : steps[StepName("FIX", i)].status = "Complete"

\* C25: verify_step stops at the first failing gate in the order checkboxes,
\* questions, children, validation: the lock names that gate (and the child,
\* for the child gate) and no validation command was run.
C25_VerifyGateOrder ==
    \A s \in TreeStepNames :
        (s = current_step /\ steps[s].exists) =>
            \A exits \in VerifyExits(FS, s), git \in GitTrees :
                LET o == verify_step(FS, s, exits, git)
                    blocking == {c \in steps[s].refs :
                                    ~(steps[c].exists /\ steps[c].status = "Complete")}
                IN  /\ steps[s].unchecked =>
                          /\ o.fs = create_lock_about(FS, "Incomplete checklist items", NoStep)
                          /\ o.ret = "false" /\ o.ran = {}
                    /\ (~steps[s].unchecked /\ steps[s].question) =>
                          /\ o.fs = create_lock_about(FS, "Pending questions in checklist", NoStep)
                          /\ o.ret = "false" /\ o.ran = {}
                    /\ (~steps[s].unchecked /\ ~steps[s].question /\ blocking # {}) =>
                          /\ o.ret = "false" /\ o.ran = {}
                          /\ o.fs.lock.held /\ o.fs.lock.about \in blocking
                          /\ \A c \in blocking : o.fs.lock.about.num <= c.num
                          /\ o.fs.lock.reason =
                                (IF steps[o.fs.lock.about].exists
                                 THEN "Incomplete child step" ELSE "Missing child step")

\* C25 witness: verify_step failed on a step where the checkbox, question and
\* child gates all fail and an expected-output command waits; the lock names
\* the checkbox gate and no command ran.
C25_Witness ==
    /\ last.op = "verify" /\ last.ret = "false" /\ last.arg = current_step
    /\ lock.reason = "Incomplete checklist items" /\ last.ran = {}
    /\ steps[last.arg].unchecked /\ steps[last.arg].question
    /\ steps[last.arg].refs # {} /\ expected[last.arg.num] > 0

\* C26: a verify_step that returns False leaves the step documents, the tree
\* documents, the pointer and the hash log as they were; only the lock
\* changes, and the inconsistencies log when a validation command failed.
C26_FailedVerifyFrame ==
    \A s \in StepNames :
        \A exits \in VerifyExits(FS, s), git \in GitTrees :
            LET o == verify_step(FS, s, exits, git)
            IN  o.ret = "false" =>
                    /\ o.fs.steps = steps
                    /\ o.fs.bootstrap = bootstrap
                    /\ o.fs.current = current_step
                    /\ o.fs.hash_log = hash_log
                    /\ o.fs.thoughts = thoughts
                    /\ o.fs.expected = expected
                    /\ \/ o.fs.inconsistencies = inconsistencies
                       \/ /\ "validation_command" \in o.ran
                          /\ Len(o.fs.inconsistencies) = Len(inconsistencies) + 1
                          /\ \A i \in 1..Len(inconsistencies) :
                                o.fs.inconsistencies[i + 1] = inconsistencies[i]

\* C26 witness: verify_step has just failed at the validation gate; the step
\* is still Open, its tree entry open, and the log holds the new entry.
C26_Witness ==
    /\ last.op = "verify" /\ last.ret = "false" /\ last.arg = current_step
    /\ lock.reason = "Expected output validation failed"
    /\ inconsistencies # <<>>
    /\ steps[last.arg].status = "Open"
    /\ ~bootstrap[last.arg.kind].checked[last.arg.num]

\* The contents a child document marked Complete may have: items checked or
\* not, a question glyph or none, no link or a link to a document of its own.
CompleteChildDocs ==
    {[exists |-> TRUE, status |-> "Complete", unchecked |-> u, question |-> q, refs |-> r] :
        u \in BOOLEAN, q \in BOOLEAN, r \in {{}, {StepName("NEW", NumSteps)}}}

\* C27: when every child the active step links exists and is marked Complete,
\* the child gate passes whatever the child holds: with the child's items,
\* question glyph and own links replaced by any others, verify_step of the
\* parent returns the same, and succeeds when the parent's checkbox,
\* question and validation gates pass.
C27_ChildGateSingleLevel ==
    \A s \in TreeStepNames, c \in ChildStepNames :
        (/\ s = current_step /\ steps[s].exists /\ c \in steps[s].refs
         /\ \A d \in steps[s].refs : steps[d].exists /\ steps[d].status = "Complete") =>
            \A exits \in VerifyExits(FS, s), git \in GitTrees, doc \in CompleteChildDocs :
                LET fs2 == [FS EXCEPT !.steps[c] = doc]
                    o == verify_step(fs2, s, exits, git)
                    others == /\ ~steps[s].unchecked /\ ~steps[s].question
                              /\ \/ expected[s.num] = NoExpected
                                 \/ \A k \in 1..expected[s.num] : exits[k] = 0
                IN  /\ first_blocking_child(fs2, s) = NoStep
                    /\ o.ret = verify_step(FS, s, exits, git).ret
                    /\ o.fs.lock.about = NoStep
                    /\ others => /\ o.ret = "true"
                                 /\ o.fs.steps[s].status = "Complete"

\* C27 witness: verify_step has just completed a step whose linked child is
\* marked Complete while the child's own items are still unchecked.
C27_Witness ==
    /\ last.op = "verify" /\ last.ret = "true"
    /\ steps[last.arg].status = "Complete"
    /\ \E c \in steps[last.arg].refs :
          steps[c].exists /\ steps[c].status = "Complete" /\ steps[c].unchecked

\* C28: the state of the git working tree decides nothing in verify_step:
\* from the same files, with the same command results, a clean and a dirty
\* working tree give the same return value and leave the same files (step
\* status, tree entry and lock among them).
C28_DirtyTreeAdvisory ==
    \A s \in StepNames :
        \A exits \in VerifyExits(FS, s) :
            LET clean == verify_step(FS, s, exits, "clean")
                dirty == verify_step(FS, s, exits, "dirty")
            IN  /\ dirty.ret = clean.ret
                /\ dirty.fs.steps = clean.fs.steps
                /\ dirty.fs.bootstrap = clean.fs.bootstrap
                /\ dirty.fs.lock = clean.fs.lock
                /\ dirty.fs = clean.fs

\* C28 witness: verify_step has just got as far as git diff and completed
\* the step, and from the files before it the dirty tree completes it too.
C28_Witness ==
    /\ last.op = "verify" /\ last.ret = "true" /\ "git_diff" \in last.ran
    /\ last.arg \in TreeStepNames
    /\ steps[last.arg].status = "Complete" /\ ~lock.held
    /\ LET before == [FS EXCEPT !.steps[last.arg].status = "Open"]
       IN  verify_step(before, last.arg, [k \in 1..MaxCmds |-> 0], "dirty").ret = "true"

\* The hash log without the entries whose file is gone.
ExistingEntries(fs) ==
    SelectSeq(fs.hash_log, LAMBDA entry : fs.steps[entry.path].exists)

\* C29: an entry of the hash log whose file no longer exists never fails
\* verify_file_hashes: the result is that of the entries whose file exists,
\* and deleting any document leaves a passing log passing.
C29_MissingPathSkipped ==
    /\ verify_file_hashes(FS) = verify_file_hashes([FS EXCEPT !.hash_log = ExistingEntries(FS)])
    /\ \A s \in StepNames :
          verify_file_hashes(FS) => verify_file_hashes([FS EXCEPT !.steps[s] = NoDoc])

\* C29 witness: the log holds an entry for a document that has been
\* deleted, and verify_file_hashes passes.
C29_Witness ==
    /\ \E i \in 1..Len(hash_log) : ~steps[hash_log[i].path].exists
    /\ verify_file_hashes(FS)

IsPrefix(a, b) == Len(a) <= Len(b) /\ SubSeq(b, 1, Len(a)) = a

\* C30: every operation of the tool leaves the hash log it found as a prefix
\* of the one it leaves, and log_file_hash adds exactly one entry, for the
\* file it was given with that file's digest.
C30_LedgerAppendOnly ==
    [][last'.op # "none" =>
          /\ IsPrefix(hash_log, hash_log')
          /\ last'.op = "record" =>
                hash_log' = Append(hash_log,
                                   [path |-> last'.arg,
                                    hash |-> compute_file_hash(steps[last'.arg])])]_vars

\* C30 witness: log_file_hash has just added its entry to a log that already
\* held one.
C30_Witness ==
    /\ last.op = "record"
    /\ Len(hash_log) >= 2
    /\ hash_log[Len(hash_log)].path = last.arg

\* The reasons the tool locks with.
LockReasons ==
    {"Incomplete checklist items", "Pending questions in checklist",
     "Expected output validation failed", "Command failed",
     "Error executing command", "Checklist incomplete", "File tampering detected"}

\* C31: create_lock_file twice leaves the one lock file with the second
\* reason, whatever lock was there before; remove_lock_file removes the lock
\* file and touches nothing else, changes nothing when there is none, and
\* twice is the same as once.
C31_LockAlgebra ==
    /\ \A r1 \in LockReasons, r2 \in LockReasons :
          LET twice == create_lock_file(create_lock_file(FS, r1), r2)
          IN  /\ twice.lock = [held |-> TRUE, reason |-> r2, about |-> NoStep]
              /\ twice = create_lock_file(FS, r2)
              /\ twice = [FS EXCEPT !.lock = twice.lock]
    /\ remove_lock_file(FS) = [FS EXCEPT !.lock = NoLock]
    /\ ~lock.held => remove_lock_file(FS) = FS
    /\ remove_lock_file(remove_lock_file(FS)) = remove_lock_file(FS)

\* C31 witness: a lock is in place, left by a failed verify_step, and
\* locking with another reason would replace it.
C31_Witness ==
    /\ lock.held /\ last.op = "verify" /\ last.ret = "false"
    /\ lock.reason = "Incomplete checklist items"
    /\ create_lock_file(FS, "Command failed").lock.reason = "Command failed"
    /\ remove_lock_file(FS) # FS

\* C32: under the tool's operations neither scratchpad log loses an entry;
\* log_thought adds exactly one question and leaves the inconsistencies log
\* alone; and with a question in the log try_push is refused.
C32_ScratchpadOnlyGrows ==
    [][/\ last'.op # "none" =>
             /\ thoughts' >= thoughts
             /\ Len(inconsistencies') >= Len(inconsistencies)
             /\ \A i \in 1..Len(inconsistencies) :
                   inconsistencies'[Len(inconsistencies') - Len(inconsistencies) + i]
                       = inconsistencies[i]
       /\ last'.op = "log" =>
             /\ thoughts' = thoughts + 1
             /\ inconsistencies' = inconsistencies
       /\ (last'.op = "push" /\ thoughts > 0) =>
             /\ last'.ret \in {"blocked", "denied"}
             /\ last'.ran = {}]_vars

\* C33: a session that found no lock file at the start of try_push never
\* looks again: whatever lock another session has written since, it is not
\* refused for it, it leaves that lock in place, and with the tree checked
\* and both logs empty it goes on to validation and git.
C33_LockObservedOnce ==
    [][\A p \in Sessions :
          (pc[p] = "unlocked" /\ pc'[p] # "unlocked") =>
              /\ last'.op = "push" /\ last'.ret = pc'[p]
              /\ last'.ret # "blocked"
              /\ lock.held => lock'.held
              /\ (~checklist_incomplete(FS) /\ thoughts = 0 /\ inconsistencies = <<>>) =>
                    /\ "validate_output" \in last'.ran
                    /\ last'.ret \in {"pushed", "denied", "error"}
                    /\ last'.ret = "pushed" => "git_push" \in last'.ran]_vars

\* C33 witness: both sessions found no lock, both pushed, and the second
\* pushed with the lock file the halt verb wrote in between still in place.
C33_Witness ==
    /\ \A p \in Sessions : pc[p] = "pushed"
    /\ last.op = "push" /\ last.ret = "pushed" /\ "git_push" \in last.ran
    /\ lock.held /\ lock.reason = "Halted"

\* C34: under a lock the exec verb runs no command, writes nothing to the
\* command log and changes no file; an exec whose command returns non-zero
\* or raises leaves a lock; and while a lock is there exec, next and push
\* are refused, the verbs removing it only through a verify_step that
\* succeeds.
C34_ExecGatedAndLocks ==
    [][/\ (last'.op = "exec" /\ lock.held) =>
             /\ last'.ret = "exit" /\ last'.ran = {}
             /\ UNCHANGED <<bootstrap, steps, lock, current_step, hash_log, thoughts,
                            inconsistencies, expected>>
       /\ (last'.op = "exec" /\ ~lock.held) =>
             /\ last'.ran = {"command_log", "shell"}
             /\ last'.ret \in {"true", "false"}
             /\ last'.ret = "false" =>
                   /\ lock'.held
                   /\ lock'.reason \in {"Command failed", "Error executing command"}
             /\ last'.ret = "true" => ~lock'.held
       /\ (lock.held /\ last'.op \in {"exec", "next", "push"}) =>
             /\ last'.ret \in {"exit", "blocked"} /\ last'.ran = {}
             /\ lock' = lock
       /\ (lock.held /\ ~lock'.held /\ last'.op # "none") =>
             last'.op = "verify" /\ last'.ret = "true"]_vars

\* C34 witness: exec was refused under the lock an earlier exec left when its
\* command returned non-zero.
C34_Witness ==
    /\ lock.held /\ lock.reason = "Command failed"
    /\ last.op = "exec" /\ last.ret = "exit" /\ last.ran = {}

====
